---------------------------- MODULE Spec2Model ----------------------------
(***************************************************************************)
(* A model of avocado/plugins/jobs.py: the `jobs` sub-command (list, show, *)
(* get-output-files).  One invocation of Jobs.run is a walk of `pc` from   *)
(* "run_scan" to "done"; it ends either by returning an exit code (rc) or  *)
(* with an exception leaving run() (exc).  The results store is read-only; *)
(* the destination file system (fs) persists from one invocation to the    *)
(* next.                                                                   *)
(***************************************************************************)
EXTENDS Naturals, Sequences, FiniteSets

VARIABLES
    store,        \* results root: job directory -> its results.json and jobdata/args.json
    subcommand,   \* config.get('jobs_subcommand')
    job_dir,      \* what get_job_results_dir(job_id) answers for the job reference
    dest_root,    \* config.get('jobs.get.output_files.destination')
    fs,           \* destination file system: path -> node
    runs,         \* invocations started so far
    pc,           \* position inside the invocation
    rc,           \* exit code returned by run(), "none" while running or when it raised
    exc,          \* exception that left run(), "none" otherwise
    handler,      \* the handle_*_command that run() called, "none" before dispatch
    glob_left,    \* glob() results the scan has not read yet
    scanned,      \* the scan order so far (history)
    results,      \* run(): the dict job_id -> results file, in insertion order
    list_left,    \* handle_list_command: jobs_results.values() still to visit
    out,          \* LOG_UI records of this invocation
    results_data, \* local of show / get-output-files
    config_data,  \* local of show / get-output-files
    spawner,      \* _download_tests: the spawner class
    tests,        \* _download_tests: the tests argument
    ti,           \* _download_tests: number of tests whose loop body was entered
    iterating,    \* _download_tests: inside `for filename, stream in files_buffers`
    destination,  \* _download_tests: the destination local (the accumulator)
    names,        \* filenames stream_output handed over in this run (history)
    calls,        \* stream_output calls of this run (history)
    saves         \* _save_stream_to_file calls of this run (history)

vars == <<store, subcommand, job_dir, dest_root, fs, runs, pc, rc, exc, handler,
          glob_left, scanned, results, list_left, out, results_data, config_data,
          spawner, tests, ti, iterating, destination, names, calls, saves>>

----------------------------------------------------------------------------
(* Bounds of the model. *)

\* tests in one results.json
MaxTests == 2
\* (filename, stream) pairs stream_output hands over in one run of the downloader
MaxFiles == 3
\* invocations of the command on the same destination
MaxRuns == 2

JobDirs == {"d1", "d2"}
JobIds == {"A", "B"}
Filenames == {"a", "b"}
Streams == {<<1>>, <<2>>}

----------------------------------------------------------------------------
(* Program constants. *)

AVOCADO_ALL_OK == "AVOCADO_ALL_OK"
AVOCADO_GENERIC_CRASH == "AVOCADO_GENERIC_CRASH"

\* get_job_results_dir's not-found answer, as handle_show_command tests it
None == "None"

\* the spawners dict of handle_output_files_command
spawners == {"process", "podman"}

\* faulty variant: a lookup that falls back to the process spawner
SpawnerGetDefault(spawner_name) ==
    IF spawner_name \in spawners THEN spawner_name ELSE "process"

\* spawners.get(spawner_name)
SpawnerGet(spawner_name) ==
    IF spawner_name \in spawners THEN spawner_name ELSE None

----------------------------------------------------------------------------
(* The results store. *)

TestT1 == [id |-> "t1", status |-> "PASS", start |-> 1000]
TestT2 == [id |-> "t2", status |-> "ERROR", start |-> 1006]
TestRecords == {TestT1, TestT2}

TestSeqs == UNION {[1..k -> TestRecords] : k \in 0..MaxTests}

\* t1, t2, t1, ... : the first n tests of a job
TestCycle(n) == [i \in 1..n |-> IF i % 2 = 1 THEN TestT1 ELSE TestT2]

NoResults == [kind |-> "absent", has_job_id |-> FALSE, job_id |-> None, tests |-> <<>>]
BadResults == [kind |-> "malformed", has_job_id |-> FALSE, job_id |-> None, tests |-> <<>>]
AnonResults == [kind |-> "ok", has_job_id |-> FALSE, job_id |-> None, tests |-> <<TestT1>>]
JobRecord(j, t) == [kind |-> "ok", has_job_id |-> TRUE, job_id |-> j, tests |-> t]

NoConfig == [kind |-> "absent", spawner |-> None]
BadConfig == [kind |-> "malformed", spawner |-> None]
JobConfigData(s) == [kind |-> "ok", spawner |-> s]

\* a saved configuration without nrun.spawner has spawner None
ConfigFiles == {NoConfig, BadConfig} \cup {JobConfigData(s) : s \in spawners \cup {None, "bogus"}}

\* glob(os.path.join(jobs_dir, '*/results.json'))
Glob(st) == {d \in JobDirs : st[d].results.kind # "absent"}

----------------------------------------------------------------------------
(* Python helpers. *)

\* faulty variant: d.setdefault(k, v), the first value of a key stays
DictSetDefault(d, k, v) ==
    IF \E i \in 1..Len(d) : d[i].key = k
    THEN d
    ELSE Append(d, [key |-> k, value |-> v])

\* d[k] = v on a dict kept as a sequence of items in insertion order
DictSet(d, k, v) ==
    IF \E i \in 1..Len(d) : d[i].key = k
    THEN [i \in 1..Len(d) |-> IF d[i].key = k THEN [key |-> k, value |-> v] ELSE d[i]]
    ELSE Append(d, [key |-> k, value |-> v])

\* d.values()
DictValues(d) == [i \in 1..Len(d) |-> d[i].value]

\* os.path.join(destination, filename), filename a relative name
Join(path, filename) == Append(path, filename)

\* os.path.dirname(filename)
Dirname(path) == SubSeq(path, 1, Len(path) - 1)

\* os.path.isdir(dirname)
IsDir(fsys, path) == path \in DOMAIN fsys /\ fsys[path].kind = "dir"

DirNode == [kind |-> "dir", data |-> <<>>]
FileNode(bytes) == [kind |-> "file", data |-> bytes]

Put(fsys, path, node) ==
    [p \in DOMAIN fsys \cup {path} |-> IF p = path THEN node ELSE fsys[p]]

\* faulty variant: open(filename, 'wb'), the file is truncated first
OpenTruncateWrite(fsys, path, stream) == Put(fsys, path, FileNode(stream))

\* open(filename, 'ab').write(stream) on a path that is not a directory
OpenAppendWrite(fsys, path, stream) ==
    IF path \in DOMAIN fsys
    THEN Put(fsys, path, FileNode(fsys[path].data \o stream))
    ELSE Put(fsys, path, FileNode(stream))

\* _save_stream_to_file's three ways out
SaveOutcome(fsys, filename) ==
    IF ~IsDir(fsys, Dirname(filename)) THEN "no_dir"
    ELSE IF IsDir(fsys, filename) THEN "IsADirectoryError"
    ELSE "written"

SaveStreamToFile(fsys, stream, filename) ==
    IF SaveOutcome(fsys, filename) = "written"
    THEN OpenAppendWrite(fsys, filename, stream)
    ELSE fsys

\* one LOG_UI record
Line(sink, kind, key, text, num) ==
    [sink |-> sink, kind |-> kind, key |-> key, text |-> text, num |-> num]

\* the job reference given on the command line
JobRefArg == "JOBID"


----------------------------------------------------------------------------
(* Initial states: one command line, one results store, one destination. *)

Unbound == [bound |-> FALSE, spawner |-> None, tests |-> <<>>]
ResultsData(f) == [bound |-> TRUE, spawner |-> None, tests |-> f.tests]
ConfigData(f) == [bound |-> TRUE, spawner |-> f.spawner, tests |-> <<>>]

DestRoot == <<"dest">>
FsNoRoot == [p \in {} |-> DirNode]
FsRoot == [p \in {DestRoot} |-> DirNode]
FsRootWithDir == [p \in {DestRoot, Join(DestRoot, "a")} |-> DirNode]

JobDirEntry(r, c) == [results |-> r, config |-> c]

\* stores for list: every shape of results.json in both job directories
ListStores ==
    LET files == {NoResults, BadResults, AnonResults}
                 \cup {JobRecord(j, t) : j \in JobIds, t \in TestSeqs}
    IN  [JobDirs -> {JobDirEntry(r, NoConfig) : r \in files}]

\* stores for show and get-output-files: d1 is the job referred to
JobStores ==
    LET files1 == {NoResults, BadResults, AnonResults}
                  \cup {JobRecord("A", TestCycle(n)) : n \in 0..MaxTests}
        files2 == {NoResults, BadResults, JobRecord("B", <<TestT2>>)}
    IN  {[d \in JobDirs |-> IF d = "d1" THEN JobDirEntry(r1, c) ELSE JobDirEntry(r2, NoConfig)] :
            r1 \in files1, c \in ConfigFiles, r2 \in files2}

\* the state in which run() starts
Start ==
    /\ pc = "run_scan"
    /\ rc = "none"
    /\ exc = "none"
    /\ handler = "none"
    /\ glob_left = Glob(store)
    /\ scanned = <<>>
    /\ results = <<>>
    /\ list_left = <<>>
    /\ out = <<>>
    /\ results_data = Unbound
    /\ config_data = Unbound
    /\ spawner = None
    /\ tests = <<>>
    /\ ti = 0
    /\ iterating = FALSE
    /\ destination = <<>>
    /\ names = <<>>
    /\ calls = <<>>
    /\ saves = <<>>

InitList ==
    /\ subcommand = "list"
    /\ store \in ListStores
    /\ job_dir = None
    /\ fs = FsRoot

InitShow ==
    /\ subcommand = "show"
    /\ store \in JobStores
    /\ job_dir \in {None, "d1"}
    /\ fs = FsRoot

InitOutputFiles ==
    /\ subcommand = "get-output-files"
    /\ store \in JobStores
    /\ job_dir \in {None, "d1"}
    /\ fs \in {FsNoRoot, FsRoot, FsRootWithDir}

Init ==
    /\ InitList \/ InitShow \/ InitOutputFiles
    /\ dest_root = DestRoot
    /\ runs = 1
    /\ Start

----------------------------------------------------------------------------
(* Ways out of run(). *)

inputs == <<store, subcommand, job_dir, dest_root>>
scan_state == <<glob_left, scanned, results>>
locals == <<results_data, config_data>>
download_state == <<spawner, tests, ti, iterating, destination, names, calls, saves>>

Return(code) == pc' = "done" /\ rc' = code /\ exc' = exc
Raise(e) == pc' = "done" /\ rc' = rc /\ exc' = e
Goto(label) == pc' = label /\ rc' = rc /\ exc' = exc

LogError(text) == Append(out, Line("error", "message", "", text, 0))

----------------------------------------------------------------------------
(* Jobs.run *)

\* one turn of `for result in glob(...)`
RunScan ==
    /\ pc = "run_scan"
    /\ \E d \in glob_left :
        LET job == store[d].results IN
        /\ glob_left' = glob_left \ {d}
        /\ scanned' = Append(scanned, d)
        /\ IF job.kind = "malformed"
           THEN Raise("JSONDecodeError") /\ results' = results
           ELSE IF ~job.has_job_id
           THEN Raise("KeyError") /\ results' = results
           ELSE Goto("run_scan") /\ results' = DictSet(results, job.job_id, d)
    /\ UNCHANGED <<inputs, fs, runs, handler, list_left, out, locals, download_state>>

\* the dispatch on jobs_subcommand
RunDispatch ==
    /\ pc = "run_scan"
    /\ glob_left = {}
    /\ CASE subcommand = "list" ->
              /\ handler' = "list"
              /\ list_left' = DictValues(results)
              /\ Goto("list")
         [] subcommand = "show" ->
              /\ handler' = "show"
              /\ list_left' = list_left
              /\ Goto("show")
         [] subcommand = "get-output-files" ->
              /\ handler' = "get-output-files"
              /\ list_left' = list_left
              /\ Goto("output_files")
         [] OTHER ->
              /\ handler' = handler
              /\ list_left' = list_left
              /\ Return(AVOCADO_ALL_OK)
    /\ UNCHANGED <<inputs, fs, runs, scan_state, out, locals, download_state>>

----------------------------------------------------------------------------
(* Jobs.handle_list_command *)

\* one turn of `for filename in jobs_results.values()`
ListJob ==
    /\ pc = "list"
    /\ list_left # <<>>
    /\ LET job == store[Head(list_left)].results IN
       out' = IF job.tests = <<>>
              THEN out
              ELSE Append(out, Line("info", "job", job.job_id, "", job.tests[1].start))
    /\ list_left' = Tail(list_left)
    /\ Goto("list")
    /\ UNCHANGED <<inputs, fs, runs, handler, scan_state, locals, download_state>>

ListReturn ==
    /\ pc = "list"
    /\ list_left = <<>>
    /\ Return(AVOCADO_ALL_OK)
    /\ UNCHANGED <<inputs, fs, runs, handler, scan_state, list_left, out, locals,
                   download_state>>

----------------------------------------------------------------------------
(* Jobs.handle_show_command *)

\* _get_data_from_file on a file of the store
GetDataFromFile(f) ==
    IF f.kind = "absent" THEN "FileNotFoundError"
    ELSE IF f.kind = "malformed" THEN "JSONDecodeError"
    ELSE "ok"

ShowResolve ==
    /\ pc = "show"
    /\ IF job_dir = None
       THEN /\ out' = LogError("Job not found")
            /\ Return(AVOCADO_GENERIC_CRASH)
       ELSE /\ out' = out
            /\ Goto("show_results")
    /\ UNCHANGED <<inputs, fs, runs, handler, scan_state, list_left, locals, download_state>>

ShowResults ==
    /\ pc = "show_results"
    /\ LET f == store[job_dir].results
           got == GetDataFromFile(f) IN
       CASE got = "FileNotFoundError" ->
              /\ out' = LogError("File not found")
              /\ results_data' = results_data
              /\ Return(AVOCADO_GENERIC_CRASH)
         [] got = "JSONDecodeError" ->
              /\ out' = out
              /\ results_data' = results_data
              /\ Raise("JSONDecodeError")
         [] OTHER ->
              /\ out' = out
              /\ results_data' = ResultsData(f)
              /\ Goto("show_config")
    /\ UNCHANGED <<inputs, fs, runs, handler, scan_state, list_left, config_data,
                   download_state>>

ShowConfig ==
    /\ pc = "show_config"
    /\ LET f == store[job_dir].config
           got == GetDataFromFile(f) IN
       CASE got = "FileNotFoundError" ->
              /\ config_data' = config_data
              /\ Goto("show_print")
         [] got = "JSONDecodeError" ->
              /\ config_data' = config_data
              /\ Raise("JSONDecodeError")
         [] OTHER ->
              /\ config_data' = ConfigData(f)
              /\ Goto("show_print")
    /\ UNCHANGED <<inputs, fs, runs, handler, scan_state, list_left, out, results_data,
                   download_state>>

\* _print_job_details: the lines of the data dict.  The Debug log and counter
\* entries copy fields of results_data that the model does not carry.
JobDetails(rd, cd) ==
    << Line("info", "detail", "Job id", JobRefArg, 0),
       Line("info", "detail", "Spawner",
            IF cd.spawner = None THEN "unknown" ELSE cd.spawner, 0) >>

\* _print_job_tests: the header and one row per test
JobTests(ts) ==
    << Line("info", "header", "", "Tests:", 0) >>
    \o [i \in 1..Len(ts) |->
          Line(IF ts[i].status \in {"ERROR", "FAIL"} THEN "error" ELSE "info",
               "test", ts[i].id, ts[i].status, 0)]

ShowPrint ==
    /\ pc = "show_print"
    /\ IF ~config_data.bound
       THEN /\ out' = out
            /\ Raise("UnboundLocalError")
       ELSE /\ out' = out \o JobDetails(results_data, config_data)
                          \o JobTests(results_data.tests)
            /\ Return(AVOCADO_ALL_OK)
    /\ UNCHANGED <<inputs, fs, runs, handler, scan_state, list_left, locals, download_state>>

----------------------------------------------------------------------------
(* Jobs.handle_output_files_command *)

\* os.path.join(results_dir, 'results.json') on what the resolver answered
OutputFilesResolve ==
    /\ pc = "output_files"
    /\ IF job_dir = None
       THEN Raise("TypeError")
       ELSE Goto("output_files_load")
    /\ UNCHANGED <<inputs, fs, runs, handler, scan_state, list_left, out, locals,
                   download_state>>

\* the try block: the saved configuration first, the results second
OutputFilesLoad ==
    /\ pc = "output_files_load"
    /\ LET c == store[job_dir].config
           r == store[job_dir].results
           got_c == GetDataFromFile(c)
           got_r == GetDataFromFile(r)
           got == IF got_c # "ok" THEN got_c ELSE got_r IN
       CASE got = "FileNotFoundError" ->
              /\ out' = LogError("Could not get job information")
              /\ UNCHANGED locals
              /\ Return(AVOCADO_GENERIC_CRASH)
         [] got = "JSONDecodeError" ->
              /\ out' = out
              /\ UNCHANGED locals
              /\ Raise("JSONDecodeError")
         [] OTHER ->
              /\ out' = out
              /\ config_data' = ConfigData(c)
              /\ results_data' = ResultsData(r)
              /\ Goto("output_files_spawner")
    /\ UNCHANGED <<inputs, fs, runs, handler, scan_state, list_left, download_state>>

\* the registry lookup and the call of _download_tests
OutputFilesSpawner ==
    /\ pc = "output_files_spawner"
    /\ LET found == SpawnerGet(config_data.spawner) IN
       IF found = None
       THEN /\ out' = LogError("Could not find the spawner for job")
            /\ UNCHANGED <<spawner, tests, destination>>
            /\ Return(AVOCADO_GENERIC_CRASH)
       ELSE /\ out' = out
            /\ spawner' = found
            /\ tests' = results_data.tests
            /\ destination' = dest_root
            /\ Goto("download")
    /\ UNCHANGED <<inputs, fs, runs, handler, scan_state, list_left, locals,
                   ti, iterating, names, calls, saves>>

----------------------------------------------------------------------------
(* Jobs._download_tests.  stream_output is the backend's: it hands over    *)
(* (filename, stream) pairs one at a time and may raise SpawnerException   *)
(* at the call or while it is iterated; both are inside the try block.     *)

\* `for test in tests`: the next test, and the stream_output call for it
DownloadCall ==
    /\ pc = "download"
    /\ ~iterating
    /\ ti < Len(tests)
    /\ ti' = ti + 1
    /\ iterating' = TRUE
    /\ calls' = Append(calls, [test |-> ti + 1, test_id |-> tests[ti + 1].id,
                               spawner |-> spawner, failed |-> FALSE])
    /\ out' = Append(out, Line("info", "download", tests[ti + 1].id, "", 0))
    /\ Goto("download")
    /\ UNCHANGED <<inputs, fs, runs, handler, scan_state, list_left, locals,
                   spawner, tests, destination, names, saves>>

\* faulty variant: the return value of _save_stream_to_file is returned
AfterSaveChecked(outcome) ==
    IF outcome = "IsADirectoryError" THEN Raise("IsADirectoryError")
    ELSE IF outcome = "no_dir" THEN Return(AVOCADO_GENERIC_CRASH)
    ELSE Goto("download")

\* what follows _save_stream_to_file: its return value is dropped
AfterSave(outcome) ==
    IF outcome = "IsADirectoryError" THEN Raise("IsADirectoryError")
    ELSE Goto("download")

\* the body of `for filename, stream in files_buffers` for a pair saved at path
SavePair(stream, filename, path) ==
    LET outcome == SaveOutcome(fs, path) IN
    /\ destination' = path
    /\ names' = Append(names, filename)
    /\ saves' = Append(saves, [test |-> ti, filename |-> path, outcome |-> outcome])
    /\ fs' = SaveStreamToFile(fs, stream, path)
    /\ out' = IF outcome = "no_dir" THEN LogError("does not exist") ELSE out
    /\ AfterSave(outcome)

\* faulty variant: every pair is joined to the destination root
DownloadSaveAtRoot ==
    /\ pc = "download"
    /\ iterating
    /\ Len(names) < MaxFiles
    /\ \E filename \in Filenames, stream \in Streams :
          SavePair(stream, filename, Join(dest_root, filename))
    /\ UNCHANGED <<inputs, runs, handler, scan_state, list_left, locals,
                   spawner, tests, ti, iterating, calls>>

\* the backend hands over one more pair
DownloadSave ==
    /\ pc = "download"
    /\ iterating
    /\ Len(names) < MaxFiles
    /\ \E filename \in Filenames, stream \in Streams :
          SavePair(stream, filename, Join(destination, filename))
    /\ UNCHANGED <<inputs, runs, handler, scan_state, list_left, locals,
                   spawner, tests, ti, iterating, calls>>

\* the backend has no more pairs for this test
DownloadExhaust ==
    /\ pc = "download"
    /\ iterating
    /\ iterating' = FALSE
    /\ Goto("download")
    /\ UNCHANGED <<inputs, fs, runs, handler, scan_state, list_left, out, locals,
                   spawner, tests, ti, destination, names, calls, saves>>

MarkFailed(cs) == [i \in 1..Len(cs) |-> IF i = Len(cs) THEN [cs[i] EXCEPT !.failed = TRUE] ELSE cs[i]]

\* faulty variant: the exception is logged and the next test is tried
DownloadFailContinue ==
    /\ pc = "download"
    /\ iterating
    /\ calls' = MarkFailed(calls)
    /\ out' = LogError("Failed to download")
    /\ iterating' = FALSE
    /\ Goto("download")
    /\ UNCHANGED <<inputs, fs, runs, handler, scan_state, list_left, locals,
                   spawner, tests, ti, destination, names, saves>>

\* `except SpawnerException`
DownloadFail ==
    /\ pc = "download"
    /\ iterating
    /\ calls' = MarkFailed(calls)
    /\ out' = LogError("Failed to download")
    /\ iterating' = iterating
    /\ Return(AVOCADO_GENERIC_CRASH)
    /\ UNCHANGED <<inputs, fs, runs, handler, scan_state, list_left, locals,
                   spawner, tests, ti, destination, names, saves>>

\* the loop over tests is over
DownloadReturn ==
    /\ pc = "download"
    /\ ~iterating
    /\ ti = Len(tests)
    /\ Return(AVOCADO_ALL_OK)
    /\ UNCHANGED <<inputs, fs, runs, handler, scan_state, list_left, out, locals,
                   download_state>>

----------------------------------------------------------------------------
(* The same command line is given again: a fresh run() on the same store   *)
(* and the destination as the last invocation left it.                     *)

Restart ==
    /\ pc = "done"
    /\ runs < MaxRuns
    /\ runs' = runs + 1
    /\ pc' = "run_scan"
    /\ rc' = "none"
    /\ exc' = "none"
    /\ handler' = "none"
    /\ glob_left' = Glob(store)
    /\ scanned' = <<>>
    /\ results' = <<>>
    /\ list_left' = <<>>
    /\ out' = <<>>
    /\ results_data' = Unbound
    /\ config_data' = Unbound
    /\ spawner' = None
    /\ tests' = <<>>
    /\ ti' = 0
    /\ iterating' = FALSE
    /\ destination' = <<>>
    /\ names' = <<>>
    /\ calls' = <<>>
    /\ saves' = <<>>
    /\ UNCHANGED <<inputs, fs>>

Next ==
    \/ RunScan
    \/ RunDispatch
    \/ ListJob
    \/ ListReturn
    \/ ShowResolve
    \/ ShowResults
    \/ ShowConfig
    \/ ShowPrint
    \/ OutputFilesResolve
    \/ OutputFilesLoad
    \/ OutputFilesSpawner
    \/ DownloadCall
    \/ DownloadSave
    \/ DownloadExhaust
    \/ DownloadFail
    \/ DownloadReturn
    \/ Restart

Spec == Init /\ [][Next]_vars

----------------------------------------------------------------------------
(* Vocabulary of the properties. *)

IsPrefix(s, t) == Len(s) <= Len(t) /\ SubSeq(t, 1, Len(s)) = s

RECURSIVE JoinAll(_, _)
\* os.path.join(path, n1, ..., nk)
JoinAll(path, ns) ==
    IF ns = <<>> THEN path ELSE JoinAll(Join(path, Head(ns)), Tail(ns))

\* _download_tests was called in this invocation
DownloaderCalled == handler = "get-output-files" /\ spawner # None

\* _download_tests has returned an exit code
DownloaderReturned == DownloaderCalled /\ pc = "done" /\ rc # "none"

\* every stream_output call was made and iterated to its end
AllListingsSucceeded ==
    /\ Len(calls) = Len(tests)
    /\ ~iterating
    /\ \A j \in 1..Len(calls) : ~calls[j].failed

\* every results.json under the root parses and has a job_id
StoreParses == \A d \in Glob(store) : store[d].results.kind = "ok" /\ store[d].results.has_job_id

\* the directory scanned last among those whose record has job_id j
LastScanned(j) ==
    LET at == {i \in 1..Len(scanned) : store[scanned[i]].results.job_id = j}
    IN  scanned[CHOOSE i \in at : \A k \in at : k <= i]

JobLine(d) ==
    Line("info", "job", store[d].results.job_id, "", store[d].results.tests[1].start)

----------------------------------------------------------------------------
(* C1: once the stream-listing call of test i has failed, the downloader   *)
(* has stopped: that call is the last one made, no file write belongs to a *)
(* later test, and the downloader has returned the generic-failure code.   *)
C1_FailureStopsDownload ==
    \A j \in 1..Len(calls) :
        calls[j].failed =>
            /\ j = Len(calls)
            /\ \A k \in 1..Len(saves) : saves[k].test <= calls[j].test
            /\ pc = "done"
            /\ rc = AVOCADO_GENERIC_CRASH
            /\ exc = "none"

\* the listing of the first of two tests failed after one file was written
C1_Witness ==
    /\ Len(tests) = 2
    /\ Len(calls) = 1
    /\ calls[1].failed
    /\ Len(saves) = 1
    /\ saves[1].outcome = "written"
    /\ rc = AVOCADO_GENERIC_CRASH

(* C2: in get-output-files, when the job's saved configuration names no    *)
(* registered spawner (no nrun.spawner, or a name other than process and   *)
(* podman), no stream-listing call and no file write is ever made, the     *)
(* destination is never touched, and the handler ends by returning the     *)
(* generic-failure code.                                                   *)
C2_UnknownSpawnerNoBackend ==
    ( /\ subcommand = "get-output-files"
      /\ job_dir # None
      /\ store[job_dir].config.kind = "ok"
      /\ store[job_dir].config.spawner \notin spawners )
    => /\ calls = <<>>
       /\ saves = <<>>
       /\ spawner = None
       /\ pc # "download"
       /\ (pc = "done" /\ handler = "get-output-files") => 
              (rc = AVOCADO_GENERIC_CRASH /\ exc = "none")

\* a job with two tests and the spawner "bogus": the handler has returned
C2_Witness ==
    /\ handler = "get-output-files"
    /\ pc = "done"
    /\ job_dir # None
    /\ store[job_dir].config = JobConfigData("bogus")
    /\ Len(store[job_dir].results.tests) = 2
    /\ rc = AVOCADO_GENERIC_CRASH
    /\ calls = <<>>

(* C3 (as claimed): when the destination root is a directory and every     *)
(* stream-listing call succeeded, the downloader has returned all-ok and   *)
(* every pair handed over has been written to a file under the root.       *)
C3_AllStreamsPersisted ==
    ( /\ DownloaderCalled
      /\ pc = "done"
      /\ IsDir(fs, dest_root)
      /\ AllListingsSucceeded )
    => /\ rc = AVOCADO_ALL_OK
       /\ \A k \in 1..Len(saves) :
             /\ saves[k].outcome = "written"
             /\ saves[k].filename \in DOMAIN fs
             /\ fs[saves[k].filename].kind = "file"

(* C4: when the downloader returns, it returns all-ok exactly if no        *)
(* stream-listing call failed, and then every test was listed: a write     *)
(* skipped for a missing directory neither ends the loop nor changes the   *)
(* code returned.                                                          *)
C4_OnlyListingFailureFails ==
    DownloaderReturned =>
        /\ rc \in {AVOCADO_ALL_OK, AVOCADO_GENERIC_CRASH}
        /\ (rc = AVOCADO_ALL_OK) <=> (\A j \in 1..Len(calls) : ~calls[j].failed)
        /\ (rc = AVOCADO_ALL_OK) => AllListingsSucceeded

\* a skipped write, then another file of the same test, then a later test: all-ok
C4_Witness ==
    /\ DownloaderReturned
    /\ rc = AVOCADO_ALL_OK
    /\ Len(saves) = 3
    /\ saves[1].outcome = "no_dir"
    /\ saves[2].test = saves[1].test
    /\ saves[3].test > saves[1].test

(* C5 (as claimed): get-output-files returns the generic-failure code and  *)
(* makes no backend call when the job is not found, or its results.json is *)
(* missing, or its jobdata/args.json is missing (the file that is not      *)
(* missing being well formed).                                             *)
C5_MissingJobFails ==
    ( /\ handler = "get-output-files"
      /\ pc = "done"
      /\ \/ job_dir = None
         \/ /\ store[job_dir].config.kind = "absent"
            /\ store[job_dir].results.kind # "malformed"
         \/ /\ store[job_dir].results.kind = "absent"
            /\ store[job_dir].config.kind # "malformed" )
    => /\ rc = AVOCADO_GENERIC_CRASH
       /\ exc = "none"
       /\ calls = <<>>

(* C6 (as claimed): show on a job whose results.json is there and whose    *)
(* jobdata/args.json is missing prints the Spawner line with "unknown" and *)
(* returns all-ok.                                                         *)
C6_ShowWithoutConfig ==
    ( /\ handler = "show"
      /\ pc = "done"
      /\ job_dir # None
      /\ store[job_dir].results.kind = "ok"
      /\ store[job_dir].config.kind = "absent" )
    => /\ rc = AVOCADO_ALL_OK
       /\ \E i \in 1..Len(out) : out[i].key = "Spawner" /\ out[i].text = "unknown"

(* C7 (as claimed): every invocation ends by returning all-ok or           *)
(* generic-failure; no exception leaves run().                             *)
C7_AlwaysAnExitCode ==
    pc = "done" => (rc \in {AVOCADO_ALL_OK, AVOCADO_GENERIC_CRASH} /\ exc = "none")

(* C8 (as claimed): on a store whose results files all parse, list ends    *)
(* with all-ok having emitted one line for each job directory whose record *)
(* has tests, with its first test's start time, and no other line.         *)
C8_OneLinePerDirectory ==
    (subcommand = "list" /\ pc = "done" /\ StoreParses) =>
        LET listed == {d \in Glob(store) : store[d].results.tests # <<>>} IN
        /\ rc = AVOCADO_ALL_OK
        /\ Len(out) = Cardinality(listed)
        /\ \A d \in listed : \E i \in 1..Len(out) : out[i] = JobLine(d)

(* C8 (amended): on a store whose results files all parse, list ends with  *)
(* all-ok having emitted one line for each distinct job_id whose           *)
(* last-scanned record has tests, with that record's first test's start    *)
(* time, and no other line: of several directories with one job_id only    *)
(* the last scanned counts.                                                *)
C8_OneLinePerJobId ==
    (subcommand = "list" /\ pc = "done" /\ StoreParses) =>
        LET ids == {store[d].results.job_id : d \in Glob(store)}
            listed == {j \in ids : store[LastScanned(j)].results.tests # <<>>} IN
        /\ rc = AVOCADO_ALL_OK
        /\ Len(out) = Cardinality(listed)
        /\ \A j \in listed : \E i \in 1..Len(out) : out[i] = JobLine(LastScanned(j))

\* two directories with the same job_id and different first tests: one line
C8_Witness ==
    /\ subcommand = "list"
    /\ pc = "done"
    /\ Glob(store) = JobDirs
    /\ StoreParses
    /\ store["d1"].results.job_id = store["d2"].results.job_id
    /\ store["d1"].results.tests = <<TestT1>>
    /\ store["d2"].results.tests = <<TestT2, TestT1>>
    /\ Len(out) = 1

(* C9: a step never removes a destination file, never changes its kind and *)
(* leaves its previous content as a prefix of its new content, in a run    *)
(* that returns, in one that a streaming failure aborts, and from one      *)
(* invocation to the next.                                                 *)
C9_FilesOnlyGrow ==
    [][\A p \in DOMAIN fs :
          /\ p \in DOMAIN fs'
          /\ fs'[p].kind = fs[p].kind
          /\ IsPrefix(fs[p].data, fs'[p].data)]_vars

\* the second invocation has appended to the file the first one wrote
C9_Witness ==
    /\ runs = 2
    /\ Join(dest_root, "a") \in DOMAIN fs
    /\ fs[Join(dest_root, "a")] = FileNode(<<1, 2>>)

(* C10: in one run of the downloader the k-th pair is saved at the path of *)
(* the pair before it (the destination root for the first) joined with its *)
(* filename, across tests, and the accumulator is the root joined with all *)
(* filenames handed over so far, in order.                                 *)
C10_DestinationDrifts ==
    DownloaderCalled =>
        /\ Len(saves) = Len(names)
        /\ \A k \in 1..Len(saves) :
              saves[k].filename =
                  Join(IF k = 1 THEN dest_root ELSE saves[k - 1].filename, names[k])
        /\ destination = JoinAll(dest_root, names)

\* three pairs over two tests: the third is saved below the first two
C10_Witness ==
    /\ DownloaderCalled
    /\ names = <<"a", "b", "a">>
    /\ saves[2].test = 1
    /\ saves[3].test = 2
    /\ destination = <<"dest", "a", "b", "a">>

=============================================================================
